---------------------------- MODULE Spec2Model ----------------------------
(***************************************************************************)
(* Model of src/app.py: the text-extraction pipeline with OCR fallback     *)
(* (extract_text_core and its two endpoints) and the console decision      *)
(* queue with its single resolver thread (decisions_init, console_loop).   *)
(*                                                                         *)
(* A Python str is a sequence of one-character strings; Python None is    *)
(* the distinguished value None below.                                     *)
(***************************************************************************)
EXTENDS Integers, Sequences, FiniteSets, TLC

(***************************************************************************)
(* Bounds of the model                                                     *)
(***************************************************************************)
MaxPages == 2          \* pages of a document
MaxPageLen == 1        \* characters of one page's text layer
MaxDecisions == 2      \* decisions_init calls in one run
MaxEndpoints == 2      \* candidates (folder_endpoints) of one decision
MaxThreads == 2        \* request threads that serve POST /lang

VARIABLES
    \* ---- one extraction request (endpoint + extract_text_core locals) ----
    epc,            \* position of the request handler
    entry,          \* which endpoint serves the request
    req_langs,      \* the ocr_langs field of the request
    ocr_langs,      \* extract_text_core's ocr_langs argument
    pages,          \* extract_text_core: pages
    text,           \* extract_text_core: text
    used_ocr,       \* extract_text_core: used_ocr
    fsize,          \* size in bytes of the document at path
    core_out,       \* how extract_text_core ended (result dict or exception)
    response,       \* what the endpoint answered
    tmp_files,      \* temporary files that exist on disk
    tl_call,        \* outcome of the _read_pdf_text(path) call of this request
    ocr_call,       \* outcome of the _ocr_via_ocrmypdf call of this request
    ocr_calls,      \* number of _ocr_via_ocrmypdf invocations of this request
    \* ---- langdetect globals and the threads of POST /lang ----
    LANGDETECT_READY,
    LANGDETECT_LOCK, \* the thread that holds the lock, or Free
    lpc,            \* position of each request thread in lang_detect
    lresult,        \* what lang_detect returned to each thread
    warm_ok,        \* number of warm-up calls of detect_langs that succeeded
    warm_failed,    \* a warm-up call of detect_langs has failed
    after_fail,     \* the thread's request began after a failed warm-up
    \* ---- console decisions ----
    DECISIONS,      \* queue.Queue of decision dicts
    rpc,            \* position of the console_loop thread
    d,              \* console_loop: d
    sugg,           \* console_loop: sugg
    choice,         \* console_loop: choice
    body,           \* console_loop: body
    thread_exc,     \* exception that ended the console thread, or None
    n_queued,       \* number of acknowledged decisions_init calls
    presented,      \* uids of the decisions dequeued, in order
    finished,       \* uids of the decisions the loop is done with
    posts           \* the callback attempts, in order

evars == <<epc, entry, req_langs, ocr_langs, pages, text, used_ocr, fsize, core_out,
           response, tmp_files, tl_call, ocr_call, ocr_calls>>
dvars == <<DECISIONS, rpc, d, sugg, choice, body, thread_exc, n_queued,
           presented, finished, posts>>
lvars == <<LANGDETECT_LOCK, lpc, lresult, warm_ok, warm_failed, after_fail>>
vars == <<evars, LANGDETECT_READY, lvars, dvars>>

(***************************************************************************)
(* Python values                                                           *)
(***************************************************************************)
None == <<"<None>">>

\* bool(x) of an Optional[str]
Truthy(x) == x # None /\ x # <<>>

\* x or y
Or(x, y) == IF Truthy(x) THEN x ELSE y

\* characters str.strip() removes
Whitespace == {" ", "\n", "\t"}

RECURSIVE LStrip(_, _)
LStrip(s, chars) ==
    IF s # <<>> /\ Head(s) \in chars THEN LStrip(Tail(s), chars) ELSE s

RECURSIVE RStrip(_, _)
RStrip(s, chars) ==
    IF s # <<>> /\ s[Len(s)] \in chars
    THEN RStrip(SubSeq(s, 1, Len(s) - 1), chars)
    ELSE s

\* s.strip(chars)
StripChars(s, chars) == RStrip(LStrip(s, chars), chars)

\* s.strip()
Strip(s) == StripChars(s, Whitespace)

\* sep.join(parts)
RECURSIVE Join(_, _)
Join(parts, sep) ==
    IF parts = <<>> THEN <<>>
    ELSE IF Len(parts) = 1 THEN parts[1]
    ELSE parts[1] \o sep \o Join(Tail(parts), sep)

\* all sequences over S of length 0..n
SeqsUpTo(S, n) == UNION {[1..k -> S] : k \in 0..n}

(***************************************************************************)
(* Text extraction helpers                                                 *)
(***************************************************************************)
\* what page.get_text("text") can give for one page
TextChars == {"a", " ", "\n"}
PageTexts == SeqsUpTo(TextChars, MaxPageLen)

\* the per-page texts of a document of n pages
DocParts(n) == [1..n -> PageTexts]

_read_pdf_text(parts) == StripChars(Join(parts, <<"\n">>), {"\n"})

\* _needs_ocr with the negation lost
_needs_ocr_Inverted(t) == Truthy(Strip(Or(t, <<>>)))

_needs_ocr(t) == ~Truthy(Strip(Or(t, <<>>)))

DEFAULT_LANGS == <<"d", "e", "r">>
SOME_LANGS == <<"d", "e">>

NoCall == [status |-> "none"]
NoOut == [kind |-> "none"]

(***************************************************************************)
(* Initial state                                                           *)
(***************************************************************************)
EInit ==
    /\ epc = "idle"
    /\ entry = "none"
    /\ req_langs = None
    /\ ocr_langs = None
    /\ pages = 0
    /\ text = <<>>
    /\ used_ocr = FALSE
    /\ fsize = 0
    /\ core_out = NoOut
    /\ response = NoOut
    /\ tmp_files = {}
    /\ tl_call = NoCall
    /\ ocr_call = NoCall
    /\ ocr_calls = 0


(***************************************************************************)
(* Exceptions and responses                                                *)
(***************************************************************************)
\* raise HTTPException(status_code=500, detail=f"OCR failed: {e}. ...")
OcrHTTPException(e) ==
    [kind |-> "HTTPException", status_code |-> 500,
     detail |-> <<"OCR failed: ", e>>]

\* an exception of an adapter that nothing in extract_text_core catches
Raised(e) == [kind |-> "Exception", error |-> e]

JSONResponse(err, code) == [kind |-> "json", error |-> err, status_code |-> code]

\* CoreResult with has_text_layer computed without "and not used_ocr"
CoreResult_NoOcrOverride(t, ocr, pg, size) ==
    [kind |-> "result",
     text |-> Or(t, <<>>),
     has_text_layer |-> Truthy(Strip(t)),
     used_ocr |-> ocr,
     pages |-> pg,
     size_bytes |-> size]

\* lines 189-199: the dict extract_text_core returns
CoreResult(t, ocr, pg, size) ==
    [kind |-> "result",
     text |-> Or(t, <<>>),
     has_text_layer |-> (Truthy(Strip(t)) /\ ~ocr),
     used_ocr |-> ocr,
     pages |-> pg,
     size_bytes |-> size]

\* the locals of a fresh request
ResetCall ==
    /\ pages' = 0
    /\ text' = <<>>
    /\ used_ocr' = FALSE
    /\ core_out' = NoOut
    /\ tl_call' = NoCall
    /\ ocr_call' = NoCall
    /\ ocr_calls' = 0

Sizes == 1..2

(***************************************************************************)
(* POST /extract-text-by-path, up to the call of extract_text_core         *)
(***************************************************************************)
extract_text_by_path ==
    /\ epc \in {"idle", "done"}
    /\ \E is_pdf \in BOOLEAN, exists \in BOOLEAN,
          langs \in {None, <<>>, SOME_LANGS}, size \in Sizes :
          /\ entry' = "by_path"
          /\ req_langs' = langs
          /\ ResetCall
          /\ IF ~is_pdf
             THEN /\ response' = JSONResponse("only .pdf accepted", 400)
                  /\ epc' = "done"
                  /\ UNCHANGED <<ocr_langs, fsize>>
             ELSE IF ~exists
             THEN /\ response' = JSONResponse("file not found", 404)
                  /\ epc' = "done"
                  /\ UNCHANGED <<ocr_langs, fsize>>
             ELSE /\ response' = NoOut
                  /\ ocr_langs' = Or(langs, DEFAULT_LANGS)
                  /\ fsize' = size
                  /\ epc' = "core_pages"
    /\ UNCHANGED <<tmp_files, LANGDETECT_READY, lvars, dvars>>

(***************************************************************************)
(* POST /extract-text (upload), up to the call of extract_text_core        *)
(***************************************************************************)
extract_text ==
    /\ epc \in {"idle", "done"}
    /\ \E is_pdf \in BOOLEAN, langs \in {<<>>, SOME_LANGS}, size \in Sizes :
          /\ entry' = "upload"
          /\ req_langs' = langs
          /\ ResetCall
          /\ IF ~is_pdf
             THEN /\ response' = JSONResponse("only .pdf accepted", 400)
                  /\ epc' = "done"
                  /\ UNCHANGED <<ocr_langs, fsize, tmp_files>>
             ELSE /\ response' = NoOut
                  /\ ocr_langs' = langs
                  /\ fsize' = size
                  /\ tmp_files' = tmp_files \cup {"upload"}
                  /\ epc' = "upload_read"
    /\ UNCHANGED <<LANGDETECT_READY, lvars, dvars>>

\* lines 223-225: data = await file.read(); tmp.write(data)
upload_read ==
    /\ epc = "upload_read"
    /\ \E ok \in BOOLEAN :
          IF ok
          THEN /\ epc' = "core_pages"
               /\ UNCHANGED response
          ELSE /\ epc' = "done"
               /\ response' = Raised("E_upload")
    /\ UNCHANGED <<entry, req_langs, ocr_langs, pages, text, used_ocr, fsize, core_out,
                   tmp_files, tl_call, ocr_call, ocr_calls,
                   LANGDETECT_READY, lvars, dvars>>

(***************************************************************************)
(* extract_text_core                                                       *)
(***************************************************************************)
\* WillOcr that tests the text for emptiness without trimming it
WillOcr_Untrimmed(t, langs) == ~Truthy(t) /\ Truthy(langs)

\* _needs_ocr(text) and ocr_langs: the branch taken at lines 174-178
WillOcr(t, langs) == _needs_ocr(t) /\ Truthy(langs)

\* line 160: pages = _pdf_pages(path), outside any try
core_pages ==
    /\ epc = "core_pages"
    /\ \/ \E n \in 1..MaxPages :
             /\ pages' = n
             /\ epc' = "core_read"
             /\ UNCHANGED core_out
       \/ /\ core_out' = Raised("E_pages")
          /\ epc' = "core_ret"
          /\ UNCHANGED pages
    /\ text' = <<>>
    /\ used_ocr' = FALSE
    /\ UNCHANGED <<entry, req_langs, ocr_langs, fsize, response, tmp_files, tl_call,
                   ocr_call, ocr_calls, LANGDETECT_READY, lvars, dvars>>

\* OnReadFailure without the try/except around _read_pdf_text
OnReadFailure_Propagate(e) ==
    [propagate |-> TRUE, text |-> <<>>]

\* lines 169-171: what extract_text_core does with an exception of
\* _read_pdf_text(path)
OnReadFailure(e) ==
    [propagate |-> FALSE, text |-> <<>>]

\* lines 166-178: the text-layer attempt and the OCR decision
core_read ==
    /\ epc = "core_read"
    /\ \/ \E parts \in DocParts(pages) :
             /\ text' = _read_pdf_text(parts)
             /\ tl_call' = [status |-> "ok", out |-> _read_pdf_text(parts)]
             /\ epc' = IF WillOcr(text', ocr_langs)
                       THEN "ocr_start" ELSE "core_finish"
             /\ UNCHANGED core_out
       \/ \E e \in {"E_text"} :
             /\ tl_call' = [status |-> "fail", error |-> e]
             /\ text' = OnReadFailure(e).text
             /\ IF OnReadFailure(e).propagate
                THEN /\ core_out' = Raised(e)
                     /\ epc' = "core_ret"
                ELSE /\ epc' = IF WillOcr(text', ocr_langs)
                               THEN "ocr_start" ELSE "core_finish"
                     /\ UNCHANGED core_out
    /\ UNCHANGED <<entry, req_langs, ocr_langs, pages, used_ocr, fsize,
                   response, tmp_files, ocr_call, ocr_calls,
                   LANGDETECT_READY, lvars, dvars>>

\* lines 130-138 of _ocr_via_ocrmypdf (max_pages_ocr is None): tmp_out
ocr_start ==
    /\ epc = "ocr_start"
    /\ ocr_calls' = ocr_calls + 1
    /\ tmp_files' = tmp_files \cup {"ocr"}
    /\ epc' = "ocr_run"
    /\ UNCHANGED <<entry, req_langs, ocr_langs, pages, text, used_ocr, fsize, core_out,
                   response, tl_call, ocr_call, LANGDETECT_READY, lvars, dvars>>

\* OnOcrFailure that swallows the exception and goes on with an empty text
OnOcrFailure_Swallow(e) ==
    [out |-> CoreResult(<<>>, TRUE, 0, 0), next |-> "core_ret"]

\* lines 182-187: what extract_text_core does with an exception of the adapter
OnOcrFailure(e) ==
    [out |-> OcrHTTPException(e), next |-> "core_ret"]

\* lines 139-156 of _ocr_via_ocrmypdf and lines 180-187 of extract_text_core
ocr_run ==
    /\ epc = "ocr_run"
    /\ \/ \E parts \in DocParts(pages) :
             /\ ocr_call' = [status |-> "ok", out |-> _read_pdf_text(parts)]
             /\ text' = _read_pdf_text(parts)
             /\ used_ocr' = TRUE
             /\ epc' = "core_finish"
             /\ UNCHANGED core_out
       \/ \E e \in {"E_ocrmypdf", "E_reread"} :
             /\ ocr_call' = [status |-> "fail", error |-> e]
             /\ core_out' = OnOcrFailure(e).out
             /\ epc' = OnOcrFailure(e).next
             /\ UNCHANGED <<text, used_ocr>>
    /\ tmp_files' = tmp_files \ {"ocr"}
    /\ UNCHANGED <<entry, req_langs, ocr_langs, pages, fsize, response, tl_call,
                   ocr_calls, LANGDETECT_READY, lvars, dvars>>

\* lines 189-199
core_finish ==
    /\ epc = "core_finish"
    /\ core_out' = CoreResult(text, used_ocr, pages, fsize)
    /\ epc' = "core_ret"
    /\ UNCHANGED <<entry, req_langs, ocr_langs, pages, text, used_ocr, fsize, response,
                   tmp_files, tl_call, ocr_call, ocr_calls,
                   LANGDETECT_READY, lvars, dvars>>

(***************************************************************************)
(* The endpoints after extract_text_core came back                         *)
(***************************************************************************)
\* lines 251-256
by_path_return ==
    /\ epc = "core_ret"
    /\ entry = "by_path"
    /\ response' = IF core_out.kind = "Exception"
                   THEN [kind |-> "json", error |-> "extract_failed",
                         detail |-> core_out.error, status_code |-> 500]
                   ELSE core_out
    /\ epc' = "done"
    /\ UNCHANGED <<entry, req_langs, ocr_langs, pages, text, used_ocr, fsize, core_out,
                   tmp_files, tl_call, ocr_call, ocr_calls,
                   LANGDETECT_READY, lvars, dvars>>

\* lines 229-236
upload_return ==
    /\ epc = "core_ret"
    /\ entry = "upload"
    /\ response' = IF core_out.kind = "result"
                   THEN [core_out EXCEPT !.size_bytes = fsize]
                   ELSE core_out
    /\ tmp_files' = tmp_files \ {"upload"}
    /\ epc' = "done"
    /\ UNCHANGED <<entry, req_langs, ocr_langs, pages, text, used_ocr, fsize, core_out,
                   tl_call, ocr_call, ocr_calls, LANGDETECT_READY, lvars, dvars>>

ENext ==
    \/ extract_text_by_path
    \/ extract_text
    \/ upload_read
    \/ core_pages
    \/ core_read
    \/ ocr_start
    \/ ocr_run
    \/ core_finish
    \/ by_path_return
    \/ upload_return

(***************************************************************************)
(* Language detection: _ensure_langdetect_ready and POST /lang             *)
(***************************************************************************)
Threads == 1..MaxThreads

\* the thread that runs the startup handler
MainThread == 0

\* LANGDETECT_LOCK when no thread holds it
Free == 0 - 1

\* body.text of a request
LangTexts == {<<>>, <<" ">>, <<"h", "i">>}

\* str(best.lang) and float(best.prob), in percent, of a detection
LangCodes == {<<"e", "n">>, <<"d", "e">>}
Probs == {50, 100}

\* {"detected_lang": None, "prob": 0.0}
NullLang == [detected_lang |-> None, prob |-> 0]

LInit ==
    /\ LANGDETECT_READY = FALSE
    /\ LANGDETECT_LOCK = Free
    /\ lpc = [t \in Threads |-> "idle"]
    /\ lresult = [t \in Threads |-> NoOut]
    /\ warm_ok = 0
    /\ warm_failed = FALSE
    /\ after_fail = [t \in Threads |-> FALSE]

\* RecheckReady without the second test of the flag under the lock
RecheckReady_Skip(ready) == FALSE

\* lines 264-265: if LANGDETECT_READY: return, with the lock held
RecheckReady(ready) == ready

\* LockAfterWarmup of a lock that is released by hand on the success path only
LockAfterWarmup_LeakOnFailure(t, ok) == IF ok THEN Free ELSE t

\* lines 263-271: the with statement releases the lock when the block is
\* left, by return or after the caught exception
LockAfterWarmup(t, ok) == Free

\* lines 275-282: the request arrives; blank text is answered at once
lang_detect(t) ==
    /\ rpc # "not_started"
    /\ lpc[t] \in {"idle", "done"}
    /\ \E raw \in LangTexts :
          IF Strip(Or(raw, <<>>)) = <<>>
          THEN /\ lresult' = [lresult EXCEPT ![t] = NullLang]
               /\ lpc' = [lpc EXCEPT ![t] = "done"]
          ELSE /\ lresult' = [lresult EXCEPT ![t] = NoOut]
               /\ lpc' = [lpc EXCEPT ![t] = "ensure_check"]
    /\ after_fail' = [after_fail EXCEPT ![t] = warm_failed]
    /\ UNCHANGED <<evars, LANGDETECT_READY, LANGDETECT_LOCK, warm_ok,
                   warm_failed, dvars>>

\* lines 261-262: the test of the flag without the lock
ensure_check(t) ==
    /\ lpc[t] = "ensure_check"
    /\ lpc' = [lpc EXCEPT ![t] = IF LANGDETECT_READY THEN "detect_wait"
                                 ELSE "ensure_wait"]
    /\ UNCHANGED <<evars, LANGDETECT_READY, LANGDETECT_LOCK, lresult, warm_ok,
                   warm_failed, after_fail, dvars>>

\* lines 263-267: the lock is taken, the flag tested again and, when it is
\* still false, detect_langs entered for the warm-up
ensure_acquire(t) ==
    /\ lpc[t] = "ensure_wait"
    /\ LANGDETECT_LOCK = Free
    /\ IF RecheckReady(LANGDETECT_READY)
       THEN /\ lpc' = [lpc EXCEPT ![t] = "detect_wait"]
            /\ UNCHANGED LANGDETECT_LOCK
       ELSE /\ lpc' = [lpc EXCEPT ![t] = "warming"]
            /\ LANGDETECT_LOCK' = t
    /\ UNCHANGED <<evars, LANGDETECT_READY, lresult, warm_ok, warm_failed,
                   after_fail, dvars>>

\* lines 267-271: the warm-up call of detect_langs returns or raises
warm_return(t) ==
    /\ lpc[t] = "warming"
    /\ \E ok \in BOOLEAN :
          /\ LANGDETECT_READY' = (IF ok THEN TRUE ELSE LANGDETECT_READY)
          /\ warm_ok' = warm_ok + (IF ok THEN 1 ELSE 0)
          /\ warm_failed' = (warm_failed \/ ~ok)
          /\ LANGDETECT_LOCK' = LockAfterWarmup(t, ok)
    /\ lpc' = [lpc EXCEPT ![t] = "detect_wait"]
    /\ UNCHANGED <<evars, lresult, after_fail, dvars>>

\* lines 283-284: the lock is taken and detect_langs(text) entered
detect_acquire(t) ==
    /\ lpc[t] = "detect_wait"
    /\ LANGDETECT_LOCK = Free
    /\ LANGDETECT_LOCK' = t
    /\ lpc' = [lpc EXCEPT ![t] = "detecting"]
    /\ UNCHANGED <<evars, LANGDETECT_READY, lresult, warm_ok, warm_failed,
                   after_fail, dvars>>

\* lines 284-291: detect_langs(text) returns or raises, the lock is
\* released and the answer built
detect_return(t) ==
    /\ lpc[t] = "detecting"
    /\ \/ \E lang \in LangCodes, prob \in Probs :
             lresult' = [lresult EXCEPT
                            ![t] = [detected_lang |-> lang, prob |-> prob]]
       \/ lresult' = [lresult EXCEPT ![t] = NullLang]
    /\ LANGDETECT_LOCK' = Free
    /\ lpc' = [lpc EXCEPT ![t] = "done"]
    /\ UNCHANGED <<evars, LANGDETECT_READY, warm_ok, warm_failed, after_fail,
                   dvars>>

(***************************************************************************)
(* Console decisions: values                                               *)
(***************************************************************************)
RequestIds == {<<"1">>, <<"2">>}
ResumeUrl == <<"u">>
SuggestedPath == <<"S">>

\* the archive's folder endpoints, as the workflow lists them
EndpointNames == <<"A", "E", "I", "M", "Q">>
AllEndpoints == [i \in 1..MaxEndpoints |-> <<EndpointNames[i]>>]

\* folder_endpoints: List[str] of a DecisionInit
EndpointLists == {SubSeq(AllEndpoints, 1, k) : k \in 0..MaxEndpoints}

\* what the human can type at the "> " prompt
RawChoices ==
    {<<"1">>, <<"2">>, <<"3">>, <<"4">>, <<"0">>, <<"-", "1">>, <<"9", "9">>,
     <<" ", "2", " ">>, <<"c">>, <<"C">>, <<"x">>, <<>>, <<" ">>}

\* what the human can type at the "New path [...]: " prompt
RawPaths == {<<>>, <<" ">>, <<"N">>, <<" ", "N">>}

Digits == {"0", "1", "2", "3", "4", "5", "6", "7", "8", "9"}

DigitVal(c) ==
    CASE c = "0" -> 0 [] c = "1" -> 1 [] c = "2" -> 2 [] c = "3" -> 3
      [] c = "4" -> 4 [] c = "5" -> 5 [] c = "6" -> 6 [] c = "7" -> 7
      [] c = "8" -> 8 [] c = "9" -> 9

RECURSIVE DigitsVal(_)
DigitsVal(s) ==
    IF s = <<>> THEN 0
    ELSE 10 * DigitsVal(SubSeq(s, 1, Len(s) - 1)) + DigitVal(s[Len(s)])

AllDigits(s) == s # <<>> /\ \A i \in 1..Len(s) : s[i] \in Digits

\* int(s): [ok |-> TRUE, val |-> n], or ValueError
int(s) ==
    LET t == Strip(s) IN
    IF AllDigits(t) THEN [ok |-> TRUE, val |-> DigitsVal(t)]
    ELSE IF t # <<>> /\ Head(t) \in {"-", "+"} /\ AllDigits(Tail(t))
    THEN [ok |-> TRUE,
          val |-> IF Head(t) = "-" THEN 0 - DigitsVal(Tail(t))
                  ELSE DigitsVal(Tail(t))]
    ELSE [ok |-> FALSE, val |-> 0]

\* s.lower()
lower(s) == [i \in 1..Len(s) |-> IF s[i] = "C" THEN "c" ELSE s[i]]

\* lst[i] of a Python list: [ok |-> TRUE, val |-> element], or IndexError
GetItem(lst, i) ==
    IF 0 <= i /\ i < Len(lst) THEN [ok |-> TRUE, val |-> lst[i + 1]]
    ELSE IF 0 - Len(lst) <= i /\ i < 0
    THEN [ok |-> TRUE, val |-> lst[Len(lst) + i + 1]]
    ELSE [ok |-> FALSE, val |-> None]

NoDecision == [uid |-> 0]
NoBody == [request_id |-> None]

DInit ==
    /\ DECISIONS = <<>>
    /\ rpc = "not_started"
    /\ d = NoDecision
    /\ sugg = <<>>
    /\ choice = <<>>
    /\ body = NoBody
    /\ thread_exc = None
    /\ n_queued = 0
    /\ presented = <<>>
    /\ finished = {}
    /\ posts = <<>>

Init ==
    /\ EInit
    /\ LInit
    /\ DInit

(***************************************************************************)
(* Console decisions: operations                                           *)
(***************************************************************************)
\* lines 350-354: the startup handler warms langdetect up (a failure is
\* caught inside _ensure_langdetect_ready) and starts the console thread
boot ==
    /\ rpc = "not_started"
    /\ LANGDETECT_LOCK = Free
    /\ \E warm \in BOOLEAN :
          /\ LANGDETECT_READY' = warm
          /\ warm_ok' = warm_ok + (IF warm THEN 1 ELSE 0)
          /\ warm_failed' = (warm_failed \/ ~warm)
          /\ LANGDETECT_LOCK' = LockAfterWarmup(MainThread, warm)
    /\ rpc' = "get"
    /\ UNCHANGED <<lpc, lresult, after_fail>>
    /\ UNCHANGED <<evars, DECISIONS, d, sugg, choice, body, thread_exc,
                   n_queued, presented, finished, posts>>

\* DECISIONS.put(item)
QueuePut(q, item) == Append(q, item)

\* QueueGet of a LIFO queue
QueueGet_Lifo(q) == [item |-> q[Len(q)], rest |-> SubSeq(q, 1, Len(q) - 1)]

\* DECISIONS.get() on a non-empty queue
QueueGet(q) == [item |-> Head(q), rest |-> Tail(q)]

\* lines 299-304: POST /decisions/init; uid is the identity of the dict
decisions_init ==
    /\ rpc # "not_started"
    /\ n_queued < MaxDecisions
    /\ \E rid \in RequestIds, eps \in EndpointLists,
          sp \in {None, SuggestedPath} :
          DECISIONS' = QueuePut(DECISIONS,
                                [uid |-> n_queued + 1,
                                 request_id |-> rid,
                                 resume_url |-> ResumeUrl,
                                 folder_endpoints |-> eps,
                                 suggested_path |-> sp])
    /\ n_queued' = n_queued + 1
    /\ UNCHANGED <<evars, LANGDETECT_READY, lvars, rpc, d, sugg, choice, body,
                   thread_exc, presented, finished, posts>>

\* lines 308-323: d = DECISIONS.get() blocks while the queue is empty
loop_get ==
    /\ rpc = "get"
    /\ DECISIONS # <<>>
    /\ d' = QueueGet(DECISIONS).item
    /\ DECISIONS' = QueueGet(DECISIONS).rest
    /\ sugg' = Or(d'.suggested_path, <<>>)
    /\ presented' = Append(presented, d'.uid)
    /\ rpc' = "choice"
    /\ UNCHANGED <<evars, LANGDETECT_READY, lvars, choice, body, thread_exc,
                   n_queued, finished, posts>>

\* Selection that takes the typed number as a 0-based index
Selection_ZeroBased(c, eps) ==
    IF ~int(c).ok THEN [ok |-> FALSE, val |-> None]
    ELSE GetItem(eps, int(c).val)

\* lines 332-334: idx = int(choice); sel = d["folder_endpoints"][idx-1]
Selection(c, eps) ==
    IF ~int(c).ok THEN [ok |-> FALSE, val |-> None]
    ELSE GetItem(eps, int(c).val - 1)

\* OnInvalidChoice that puts the decision back into the queue
OnInvalidChoice_Requeue(q, dec) ==
    [queue |-> Append(q, dec), next |-> "get", exc |-> None]

\* OnInvalidChoice without the try/except: the exception ends the thread
OnInvalidChoice_Raise(q, dec) ==
    [queue |-> q, next |-> "dead", exc |-> <<"ValueError">>]

\* lines 336-339: the except branch of the selection
OnInvalidChoice(q, dec) ==
    [queue |-> q, next |-> "get", exc |-> None]

\* lines 324-339: the "> " prompt returned a line
loop_choice ==
    /\ rpc = "choice"
    /\ \E raw \in RawChoices :
          /\ choice' = Strip(raw)
          /\ IF lower(choice') = <<"c">>
             THEN /\ rpc' = "newpath"
                  /\ UNCHANGED <<body, DECISIONS, finished, thread_exc>>
             ELSE IF Selection(choice', d.folder_endpoints).ok
             THEN /\ body' = [request_id |-> d.request_id,
                              selected_path |->
                                  Selection(choice', d.folder_endpoints).val,
                              suggested_path |-> None,
                              create |-> FALSE]
                  /\ rpc' = "post"
                  /\ UNCHANGED <<DECISIONS, finished, thread_exc>>
             ELSE /\ DECISIONS' = OnInvalidChoice(DECISIONS, d).queue
                  /\ rpc' = OnInvalidChoice(DECISIONS, d).next
                  /\ thread_exc' = OnInvalidChoice(DECISIONS, d).exc
                  /\ finished' = finished \cup {d.uid}
                  /\ UNCHANGED body
    /\ UNCHANGED <<evars, LANGDETECT_READY, lvars, d, sugg, n_queued, presented,
                   posts>>

\* lines 326-329: the "New path [...]: " prompt returned a line
loop_newpath ==
    /\ rpc = "newpath"
    /\ \E raw \in RawPaths :
          body' = [request_id |-> d.request_id,
                   selected_path |-> None,
                   suggested_path |-> Or(Strip(raw), sugg),
                   create |-> TRUE]
    /\ rpc' = "post"
    /\ UNCHANGED <<evars, LANGDETECT_READY, lvars, DECISIONS, d, sugg, choice,
                   thread_exc, n_queued, presented, finished, posts>>

\* lines 324 and 326: input() raises EOFError when stdin is closed; nothing
\* in console_loop catches it and the thread ends
loop_eof ==
    /\ rpc \in {"choice", "newpath"}
    /\ thread_exc' = <<"EOFError">>
    /\ rpc' = "dead"
    /\ UNCHANGED <<evars, LANGDETECT_READY, lvars, DECISIONS, d, sugg, choice, body,
                   n_queued, presented, finished, posts>>

\* OnPostFailure without the try/except: the exception ends the thread
OnPostFailure_Raise(q, dec) ==
    [queue |-> q, next |-> "dead", exc |-> <<"HTTPError">>]

\* OnPostFailure that puts the decision back into the queue for a retry
OnPostFailure_Requeue(q, dec) ==
    [queue |-> Append(q, dec), next |-> "get", exc |-> None]

\* lines 345-347: the except branch of the callback
OnPostFailure(q, dec) ==
    [queue |-> q, next |-> "get", exc |-> None]

\* lines 340-347: the callback POST to resume_url, which returns or raises
loop_post ==
    /\ rpc = "post"
    /\ \E ok \in BOOLEAN :
          /\ posts' = Append(posts, [uid |-> d.uid, url |-> d.resume_url,
                                     ok |-> ok])
          /\ IF ok
             THEN /\ rpc' = "get"
                  /\ UNCHANGED <<DECISIONS, thread_exc>>
             ELSE /\ DECISIONS' = OnPostFailure(DECISIONS, d).queue
                  /\ rpc' = OnPostFailure(DECISIONS, d).next
                  /\ thread_exc' = OnPostFailure(DECISIONS, d).exc
    /\ finished' = finished \cup {d.uid}
    /\ UNCHANGED <<evars, LANGDETECT_READY, lvars, d, sugg, choice, body, n_queued,
                   presented>>

DNext ==
    \/ boot
    \/ decisions_init
    \/ loop_get
    \/ loop_choice
    \/ loop_newpath
    \/ loop_eof
    \/ loop_post

(***************************************************************************)
(* Specifications                                                          *)
(***************************************************************************)
LNext ==
    \/ boot
    \/ \E t \in Threads :
          \/ lang_detect(t)
          \/ ensure_check(t)
          \/ ensure_acquire(t)
          \/ warm_return(t)
          \/ detect_acquire(t)
          \/ detect_return(t)

Next == ENext \/ DNext \/ LNext

Spec == Init /\ [][Next]_vars

\* the extraction requests alone
SpecExtract == Init /\ [][ENext]_vars

\* the decision queue and its resolver alone
SpecDecisions == Init /\ [][DNext]_vars

\* the startup warm-up and the threads of POST /lang alone
SpecLang == Init /\ [][LNext]_vars

(***************************************************************************)
(* Properties of extract_text_core (checked under SpecExtract)             *)
(***************************************************************************)
Returned == core_out.kind = "result"

\* the text-layer attempt of this request gave text that is not blank
TextLayerNonBlank == tl_call.status = "ok" /\ Truthy(Strip(tl_call.out))

\* the text-layer attempt of this request gave empty or whitespace-only text
TextLayerBlank == tl_call.status = "ok" /\ ~Truthy(Strip(tl_call.out))

\* the OCR decision of this request has been taken
PastDecision == epc \in {"ocr_start", "ocr_run", "core_finish", "core_ret", "done"}

\* C1: no result of extract_text_core, and no answer of an endpoint that
\* carries one, has has_text_layer and used_ocr both true.
C1_NeverBothFlags ==
    /\ Returned => ~(core_out.has_text_layer /\ core_out.used_ocr)
    /\ response.kind = "result" =>
           ~(response.has_text_layer /\ response.used_ocr)

\* C1 witness: a result made by OCR whose text is not blank, which is where
\* the override of the text-layer flag matters.
C1_Witness ==
    /\ Returned
    /\ core_out.used_ocr
    /\ Truthy(Strip(core_out.text))
    /\ response.kind = "result"

\* C2: once the text-layer attempt succeeded with text that is not blank,
\* the OCR adapter is never invoked, the call cannot end in an error, and
\* its result has has_text_layer, not used_ocr, and the adapter's text.
C2_TextLayerWins ==
    TextLayerNonBlank =>
        /\ ocr_calls = 0
        /\ ocr_call.status = "none"
        /\ epc \notin {"ocr_start", "ocr_run"}
        /\ core_out.kind \in {"none", "result"}
        /\ Returned =>
               /\ core_out.has_text_layer
               /\ ~core_out.used_ocr
               /\ core_out.text = tl_call.out

\* C2 witness: a returned result for a non-blank text layer, OCR enabled.
C2_Witness ==
    /\ TextLayerNonBlank
    /\ Truthy(ocr_langs)
    /\ Returned
    /\ epc = "done"

\* C3: with a blank text layer and OCR enabled the OCR adapter is invoked,
\* and when it succeeds the result has used_ocr, not has_text_layer, and
\* the OCR adapter's text, empty or not.
C3_BlankLayerUsesOcr ==
    (TextLayerBlank /\ Truthy(ocr_langs) /\ PastDecision) =>
        /\ ocr_calls = (IF epc = "ocr_start" THEN 0 ELSE 1)
        /\ core_out.kind \in {"none", "result", "HTTPException"}
        /\ Returned =>
               /\ ocr_call.status = "ok"
               /\ core_out.used_ocr
               /\ ~core_out.has_text_layer
               /\ core_out.text = ocr_call.out
        /\ (ocr_call.status = "ok" /\ epc \in {"core_ret", "done"}) => Returned

\* C3 witness: a whitespace-only text layer, OCR enabled, and an OCR that
\* succeeded with an empty text.
C3_Witness ==
    /\ TextLayerBlank
    /\ tl_call.out # <<>>
    /\ Truthy(ocr_langs)
    /\ ocr_call.status = "ok"
    /\ ocr_call.out = <<>>
    /\ Returned

\* C4: with OCR disabled and a text layer that is missing, empty or
\* whitespace-only, the call returns text "", used_ocr false and
\* has_text_layer false, raises nothing and never invokes the OCR adapter.
C4_DisabledOcrGivesEmptyText ==
    (~Truthy(ocr_langs) /\ (TextLayerBlank \/ tl_call.status = "fail")) =>
        /\ ocr_calls = 0
        /\ core_out.kind \in {"none", "result"}
        /\ Returned =>
               /\ core_out.text = <<>>
               /\ ~core_out.used_ocr
               /\ ~core_out.has_text_layer

\* C5: when the OCR adapter fails, extract_text_core ends in the
\* HTTPException that carries the adapter's error, and neither it nor the
\* endpoint produces a result.
C5_OcrFailureIsAnError ==
    ocr_call.status = "fail" =>
        /\ core_out = OcrHTTPException(ocr_call.error)
        /\ response \in {NoOut, core_out}
        /\ ~used_ocr

\* C5 witness: the endpoint has answered a request whose OCR failed.
C5_Witness ==
    /\ ocr_call.status = "fail"
    /\ ocr_call.error = "E_reread"
    /\ epc = "done"
    /\ response.kind = "HTTPException"

\* C6: a failure of the page-counting adapter does not end
\* extract_text_core in an error.
C6_PageCountFailureNotFatal ==
    core_out.kind = "Exception" => core_out.error # "E_pages"

\* C7: a failure of the text-layer adapter is not propagated; the call goes
\* on as for an empty text layer (OCR when enabled, the empty result when
\* disabled) and ends in an error only when the OCR adapter failed.
C7_ReadFailureNotPropagated ==
    tl_call.status = "fail" =>
        /\ core_out.kind # "Exception"
        /\ PastDecision
        /\ ocr_calls = (IF Truthy(ocr_langs) /\ epc # "ocr_start" THEN 1 ELSE 0)
        /\ epc = "ocr_start" => Truthy(ocr_langs)
        /\ core_out.kind = "HTTPException" => ocr_call.status = "fail"
        /\ (Returned /\ ~Truthy(ocr_langs)) =>
               /\ core_out.text = <<>>
               /\ ~core_out.used_ocr
               /\ ~core_out.has_text_layer
        /\ (Returned /\ Truthy(ocr_langs)) =>
               /\ core_out.used_ocr
               /\ core_out.text = ocr_call.out

\* C7 witness: the text-layer adapter failed, OCR ran and gave the text.
C7_Witness ==
    /\ tl_call.status = "fail"
    /\ Returned
    /\ core_out.used_ocr
    /\ Truthy(core_out.text)
    /\ epc = "done"

(***************************************************************************)
(* Properties of the decision queue and console_loop (checked under        *)
(* SpecDecisions)                                                          *)
(***************************************************************************)
\* the uids of a sequence of dicts
Uids(q) == [i \in 1..Len(q) |-> q[i].uid]

\* 1, 2, ..., n
UpTo(n) == [i \in 1..n |-> i]

\* the decisions dequeued and not finished
Live == {presented[i] : i \in 1..Len(presented)} \ finished

PostedUids == {posts[i].uid : i \in 1..Len(posts)}

\* C8: the resolver presents the decisions in the order of their enqueue,
\* every decision presented before the latest one is finished (its
\* callback attempted, or discarded), and at most one decision is live.
C8_OneAtATimeInOrder ==
    /\ presented = UpTo(Len(presented))
    /\ \A i \in 1..(Len(presented) - 1) : presented[i] \in finished
    /\ Cardinality(Live) <= 1
    /\ \A i \in 1..Len(posts) : \A j \in 1..Len(posts) :
           i < j => posts[i].uid < posts[j].uid
    /\ Live # {} => (d.uid \in Live /\ rpc \in {"choice", "newpath", "post", "dead"})

\* C8 witness: decision 2 is presented after decision 1 was finished by a
\* callback attempt.
C8_Witness ==
    /\ presented = <<1, 2>>
    /\ rpc = "choice"
    /\ Live = {2}
    /\ PostedUids = {1}

\* C9: every acknowledged decision is either still in the queue or was
\* dequeued exactly once; none is lost, duplicated or placed back.
C9_ConsumedAtMostOnce ==
    /\ presented \o Uids(DECISIONS) = UpTo(n_queued)
    /\ \A i \in 1..Len(posts) : \A j \in 1..Len(posts) :
           posts[i].uid = posts[j].uid => i = j
    /\ PostedUids \subseteq finished

\* C9 witness: one decision was discarded for invalid input, the callback
\* of the next one failed, and the queue is empty again.
C9_Witness ==
    /\ 1 \in finished \ PostedUids
    /\ Len(posts) = 1
    /\ posts[1].uid = 2
    /\ ~posts[1].ok
    /\ rpc = "get"
    /\ DECISIONS = <<>>

\* C10: a line typed at either prompt and a callback that returns or fails
\* never end the console thread: the thread ends only by the EOFError of
\* input(); after an invalid choice and after every callback attempt the
\* loop is back at DECISIONS.get().
C10_LoopSurvivesDecision ==
    [][/\ (rpc # "dead" /\ rpc' = "dead") =>
              (thread_exc' = <<"EOFError">> /\ UNCHANGED choice
                 /\ UNCHANGED body /\ UNCHANGED posts)
       /\ rpc' # "dead" => thread_exc' = None
       /\ (rpc = "post" /\ posts' # posts) => rpc' = "get"
       /\ (rpc = "choice" /\ finished' # finished) => rpc' = "get"
       /\ (rpc = "choice" /\ rpc' \notin {"choice", "dead"}) =>
              rpc' \in {"newpath", "post", "get"}
       /\ (rpc = "newpath" /\ rpc' \notin {"newpath", "dead"}) => rpc' = "post"
      ]_vars

\* C10 witness: after the callback of decision 1 failed the loop has taken
\* decision 2 from the queue, and after an invalid choice for it the loop is
\* back at DECISIONS.get().
C10_Witness ==
    /\ rpc = "get"
    /\ thread_exc = None
    /\ presented = <<1, 2>>
    /\ finished = {1, 2}
    /\ Len(posts) = 1
    /\ posts[1].uid = 1
    /\ ~posts[1].ok

\* the line typed at the "> " prompt is an index into the candidates of d
ValidIndex ==
    /\ int(choice).ok
    /\ int(choice).val \in 1..Len(d.folder_endpoints)

\* the loop is about to POST body for d
Posting == rpc = "post"

\* C11: a callback that carries a selected_path is issued only for a typed
\* number in 1..N; every other line that is not the create directive
\* discards the decision.
C11_OnlyValidIndexSelects ==
    (Posting /\ ~body.create) => ValidIndex

\* C12: the create directive with a blank path and no suggested_path leads
\* to no callback.
C12_BlankCreateIsDiscarded ==
    (Posting /\ body.create /\ ~Truthy(d.suggested_path)) =>
        Truthy(body.suggested_path)

\* C13: every body sent to resume_url has either selected_path populated
\* with create false and suggested_path null, or suggested_path populated
\* with create true and selected_path null.
C13_ExactlyOnePath ==
    Posting =>
        \/ /\ Truthy(body.selected_path)
           /\ ~body.create
           /\ body.suggested_path = None
        \/ /\ Truthy(body.suggested_path)
           /\ body.create
           /\ body.selected_path = None

\* C14: a typed integer i with 1 <= i <= N is never discarded, and its
\* callback body has the decision's request_id, the i-th candidate (counted
\* from 1) as selected_path, create false and suggested_path null.
C14_ValidIndexSelectsCandidate ==
    (ValidIndex /\ d.uid \in Live \cup finished /\ rpc \in {"post", "get"}) =>
        /\ rpc = "get" => d.uid \in PostedUids
        /\ body = [request_id |-> d.request_id,
                   selected_path |-> d.folder_endpoints[int(choice).val],
                   suggested_path |-> None,
                   create |-> FALSE]

\* C14 witness: "2" was typed for a decision with two candidates and the
\* second one is about to be posted.
C14_Witness ==
    /\ Posting
    /\ choice = <<"2">>
    /\ Len(d.folder_endpoints) = 2
    /\ body.selected_path = AllEndpoints[2]
    /\ body.request_id = d.request_id

\* the state of the decision with uid u in the state machine of a decision
DState(u) ==
    IF u > n_queued THEN "none"
    ELSE IF \E i \in 1..Len(DECISIONS) : DECISIONS[i].uid = u THEN "Queued"
    ELSE IF u \in finished
    THEN (IF u \in PostedUids THEN "CallbackAttempted" ELSE "DiscardedInvalid")
    ELSE IF rpc = "post"
    THEN (IF body.create THEN "ResolvedCreated" ELSE "ResolvedSelected")
    ELSE "Presented"

\* the steps of the state machine of a decision, as the claim has them
ClaimedSteps ==
    {<<"none", "Queued">>, <<"Queued", "Presented">>,
     <<"Presented", "ResolvedSelected">>, <<"Presented", "ResolvedCreated">>,
     <<"Presented", "DiscardedInvalid">>,
     <<"ResolvedSelected", "CallbackAttempted">>,
     <<"ResolvedCreated", "CallbackAttempted">>,
     <<"DiscardedInvalid", "CallbackAttempted">>}

\* C15 as claimed: every decision the loop is done with had a callback
\* attempt; being discarded as invalid is not where a decision ends.
C15_CallbackForEveryDequeued ==
    \A u \in 1..n_queued : DState(u) # "DiscardedInvalid"

\* C15 as amended: a decision moves only along Queued -> Presented -> one of
\* {ResolvedSelected, ResolvedCreated} -> CallbackAttempted or along
\* Queued -> Presented -> DiscardedInvalid; CallbackAttempted and
\* DiscardedInvalid are both terminal, and a decision discarded as invalid
\* has no callback attempt.
C15_DecisionStateMachine ==
    [][\A u \in 1..MaxDecisions + 1 :
          \/ DState(u)' = DState(u)
          \/ /\ <<DState(u), DState(u)'>> \in
                    ClaimedSteps \ {<<"DiscardedInvalid", "CallbackAttempted">>}
             /\ DState(u)' = "CallbackAttempted" =>
                    (posts' # posts /\ posts'[Len(posts')].uid = u)
             /\ DState(u)' = "DiscardedInvalid" => posts' = posts
      ]_vars

\* C15 witness: decision 1 was discarded as invalid without a callback and
\* decision 2 ended with its callback attempt.
C15_Witness ==
    /\ n_queued = 2
    /\ DState(1) = "DiscardedInvalid"
    /\ DState(2) = "CallbackAttempted"
    /\ PostedUids = {2}

(***************************************************************************)
(* Properties of the extraction endpoints (checked under SpecExtract)      *)
(***************************************************************************)
\* C17: when no request is being served, no temporary file of a call is
\* left on disk, however the call ended.
C17_TempFilesDeleted ==
    epc \in {"idle", "done"} => tmp_files = {}

\* C18: a request to /extract-text-by-path whose ocr_langs is empty or
\* absent, on a document whose text layer is missing or blank, never
\* invokes the OCR adapter and is answered by the result with empty text,
\* used_ocr false and has_text_layer false.
C18_ByPathEmptyLangsDisablesOcr ==
    (/\ entry = "by_path"
     /\ ~Truthy(req_langs)
     /\ (TextLayerBlank \/ tl_call.status = "fail")) =>
        /\ ocr_calls = 0
        /\ epc \notin {"ocr_start", "ocr_run"}
        /\ epc = "done" =>
               /\ response.kind = "result"
               /\ response.text = <<>>
               /\ ~response.used_ocr
               /\ ~response.has_text_layer

(***************************************************************************)
(* Properties of the language detection (checked under SpecLang)           *)
(***************************************************************************)
\* the threads that are inside detect_langs
InClassifier == {t \in Threads : lpc[t] \in {"warming", "detecting"}}

\* C16: every POST /lang request that began after a warm-up failed is
\* answered {"detected_lang": None, "prob": 0.0}.
C16_NullAfterWarmupFailure ==
    \A t \in Threads :
        (lpc[t] = "done" /\ after_fail[t]) => lresult[t] = NullLang

\* C19: the warm-up call succeeds at most once, LANGDETECT_READY never
\* goes back to false, it is true exactly when a warm-up has succeeded, and
\* no thread enters the warm-up call once it is true.
C19_WarmupOnce ==
    [][/\ LANGDETECT_READY => LANGDETECT_READY'
       /\ warm_ok' <= 1
       /\ LANGDETECT_READY' <=> (warm_ok' = 1)
       /\ \A t \in Threads :
              (lpc[t] # "warming" /\ lpc'[t] = "warming") => ~LANGDETECT_READY
      ]_vars

\* C19 witness: the warm-up at startup failed, two requests both saw the
\* flag false, one of them has warmed up and the other still waits for the
\* lock in _ensure_langdetect_ready.
C19_Witness ==
    /\ LANGDETECT_READY
    /\ warm_failed
    /\ warm_ok = 1
    /\ \E t \in Threads : lpc[t] = "ensure_wait"
    /\ \E t \in Threads : lpc[t] \in {"detect_wait", "detecting", "done"}

\* C20: at most one thread is inside detect_langs, a thread inside it holds
\* LANGDETECT_LOCK, and the lock is held only by a thread that is inside
\* it: no thread waits for the lock while holding it and no thread leaves
\* _ensure_langdetect_ready or lang_detect with the lock held.
C20_ClassifierSerialized ==
    /\ Cardinality(InClassifier) <= 1
    /\ \A t \in InClassifier : LANGDETECT_LOCK = t
    /\ LANGDETECT_LOCK # Free => LANGDETECT_LOCK \in InClassifier

\* C20 witness: after a failed warm-up one thread is inside
\* detect_langs(text) while another waits for the lock.
C20_Witness ==
    /\ warm_failed
    /\ \E t \in Threads : lpc[t] = "detecting"
    /\ \E t \in Threads : lpc[t] \in {"ensure_wait", "detect_wait"}

(***************************************************************************)
(* Liveness of the resolver                                                *)
(***************************************************************************)
\* the steps of the service when every input() returns a line
DNextLive ==
    \/ boot
    \/ decisions_init
    \/ loop_get
    \/ loop_choice
    \/ loop_newpath
    \/ loop_post

\* the console thread is scheduled, each prompt eventually returns a line
\* and each POST returns or raises within its timeout of 30 s (line 341)
ResolverFairness ==
    /\ WF_vars(loop_get)
    /\ WF_vars(loop_choice)
    /\ WF_vars(loop_newpath)
    /\ WF_vars(loop_post)

SpecResolverFair == Init /\ [][DNextLive]_vars /\ ResolverFairness

\* the decision with uid u has been taken from the queue and presented
Presented(u) == \E i \in 1..Len(presented) : presented[i] = u

\* C21: every decision acknowledged by decisions_init is eventually
\* dequeued and presented, whatever was typed for the decisions before it
\* and however their callbacks ended.
C21_EveryDecisionPresented ==
    \A u \in 1..MaxDecisions : (n_queued >= u) ~> Presented(u)

\* C21 witness: decision 2 is presented after decision 1 was discarded for
\* an invalid choice.
C21_Witness ==
    /\ n_queued = 2
    /\ Presented(2)
    /\ 1 \in finished \ PostedUids
    /\ d.uid = 2
    /\ rpc = "choice"

=============================================================================
